---- MODULE Spec2Model ----
(***************************************************************************)
(* Model of the remote reprojection client of core/proj/srv.py (class      *)
(* EPSGIO): ping, reprojPt, reprojPts, _normalize_results and search.      *)
(*                                                                         *)
(* Coordinates are decimal numbers with five fractional digits, strings     *)
(* are TLA+ strings built by concatenation, exceptions are named by their  *)
(* Python class, and a JSON document is a tagged record.  The remote       *)
(* service is the environment: every request draws its outcome from the    *)
(* outcomes urllib and the service can produce.                            *)
(*                                                                         *)
(* The module also models execute of the GPX import operator               *)
(* (operators/io_import_gpx.py) as far as it reads and writes the scene's  *)
(* georeference; the mesh it builds is kept as the names of the objects.   *)
(***************************************************************************)
EXTENDS Integers, Sequences, FiniteSets, TLC

VARIABLES
    pc,        \* position of the running call: "idle", a loop label, or "done"
    op,        \* the operation called: "none", "ping", "reprojPt", "reprojPts", "search"
    apiKey,    \* the api_key argument of ping / search
    envKey,    \* the MAPTILER_API_KEY variable of the environment
    query,     \* the query argument of search
    epsg,      \* <<epsg1, epsg2>> of the running reprojection call
    points,    \* the `points` argument of reprojPts / <<x1, y1>> of reprojPt
    i,         \* index of the chunking loop (srv.py:107), 1-based
    part,      \* the chunk being accumulated (srv.py:106)
    parts,     \* the closed chunks (srv.py:106), joined strings after srv.py:116
    segs,      \* what the service reads in the data segment of each joined chunk
    k,         \* index of the request loop (srv.py:119), 1-based
    result,    \* the `result` list of reprojPts (srv.py:118)
    requests,  \* URLs handed to urlopen, in order
    replies,   \* what the service answered to each request, in order
    logged,    \* log.error records, in order
    ret,       \* how the call ended: [kind |-> "none" | "return" | "raise", ...]
    self,      \* the properties of the GPX import operator (io_import_gpx.py:42-93)
    geoscn,    \* the scene: its georeference and the names of its objects
    georef0,   \* the scene as it was when execute was called
    reported   \* self.report messages, in order

vars == <<pc, op, apiKey, envKey, query, epsg, points, i, part, parts, segs, k, result, requests, replies, logged, ret, self, geoscn, georef0, reported>>

(***************************************************************************)
(* Bounds of the model.                                                    *)
(***************************************************************************)
\* largest batch of the track with long encodings handed to reprojPts
MaxPts == 236

\* largest batch of the other tracks
MaxShort == 12

(***************************************************************************)
(* Python helpers.                                                         *)
(***************************************************************************)
Digit == <<"0", "1", "2", "3", "4", "5", "6", "7", "8", "9">>

\* str(n) of a non-negative int
RECURSIVE NatStr(_)
NatStr(n) == IF n < 10 THEN Digit[n + 1] ELSE NatStr(n \div 10) \o Digit[(n % 10) + 1]

\* str(n) of an int
IntStr(n) == IF n < 0 THEN "-" \o NatStr(-n) ELSE NatStr(n)

\* f written with exactly w decimal digits
RECURSIVE Padded(_, _)
Padded(f, w) == IF w = 0 THEN "" ELSE Padded(f \div 10, w - 1) \o Digit[(f % 10) + 1]

\* the fractional digits of repr(float): trailing zeros dropped, one digit kept
RECURSIVE FracStr(_, _)
FracStr(f, w) == IF w > 1 /\ f % 10 = 0 THEN FracStr(f \div 10, w - 1) ELSE Padded(f, w)

Pow10(w) == IF w = 4 THEN 10000 ELSE 100000

\* A coordinate is the float (-1)^neg * (ip + fp / 1e5) with 0 <= fp < 1e5.
\* str(v) of the float (-1)^neg * (ip + f / 10^w), w in {4, 5}, below 1e16:
\* positional notation, except below 1e-4 where repr switches to an exponent
StrFloat(neg, ip, f, w) ==
    (IF neg THEN "-" ELSE "") \o
    (IF ip = 0 /\ f # 0 /\ f * 10000 < Pow10(w)
        THEN NatStr(f) \o "e-05"
        ELSE NatStr(ip) \o "." \o FracStr(f, w))

\* round(v, 4): the nearest multiple of 1e-4, an exact tie going to the even
\* one; the sign survives a result of zero (round(-0.00001, 4) is -0.0)
Round4(c) ==
    LET q == c.fp \div 10
        r == c.fp % 10
        up == r > 5 \/ (r = 5 /\ q % 2 = 1)
        f == IF up THEN q + 1 ELSE q
    IN  [neg |-> c.neg, ip |-> IF f = 10000 THEN c.ip + 1 ELSE c.ip, f4 |-> f % 10000]

\* str(round(v, precision)) with precision = 4 (srv.py:104-105)
StrRound4(c) == StrFloat(Round4(c).neg, Round4(c).ip, Round4(c).f4, 4)

\* str(v) of an argument as given (srv.py:71-72)
StrArg(c) == StrFloat(c.neg, c.ip, c.fp, 5)

\* ','.join(str(round(v, precision)) for v in p) (srv.py:105)
EncodePoint(p) == StrRound4(p[1]) \o "," \o StrRound4(p[2])

\* data (srv.py:105)
Data(pts) == [j \in 1..Len(pts) |-> EncodePoint(pts[j])]

\* sum([len(p) for p in part]) (srv.py:108)
RECURSIVE SumLen(_)
SumLen(s) == IF s = <<>> THEN 0 ELSE Len(Head(s)) + SumLen(Tail(s))

\* ';'.join(part) (srv.py:116)
RECURSIVE Join(_)
Join(s) ==
    IF s = <<>> THEN ""
    ELSE IF Len(s) = 1 THEN s[1]
    ELSE s[1] \o ";" \o Join(Tail(s))

(***************************************************************************)
(* Inputs.                                                                 *)
(***************************************************************************)
\* CRS codes of the calls
CRSPairs == {<<4326, 2154>>, <<2154, 3857>>}

\* the float (-1)^neg * (base + c / 1e5); with base = 0 the sign of c counts
Coord(neg, base, c) ==
    IF base = 0 /\ c < 0
        THEN [neg |-> ~neg, ip |-> (-c) \div 100000, fp |-> (-c) % 100000]
        ELSE [neg |-> neg, ip |-> base + (c \div 100000), fp |-> c % 100000]

\* Point batches are tracks: point j is the start moved j-1 steps of (dx, dy)
\* hundred-thousandths.  The first is a lon/lat track, the second runs through
\* zero (signs, -0.0, exponents and short encodings), the third has 10-digit
\* projected coordinates, so that 118 points fill a request and its first
\* chunk boundary falls on exactly 4000 characters.
Tracks == <<
    [neg |-> FALSE, xb |-> 2, x0 |-> 35000, dx |-> 12, yb |-> 48, y0 |-> 85000, dy |-> -8],
    [neg |-> FALSE, xb |-> 0, x0 |-> -34, dx |-> 6, yb |-> 9, y0 |-> 99990, dy |-> 4],
    [neg |-> TRUE, xb |-> 1234567890, x0 |-> 23504, dx |-> 1002,
                   yb |-> 2087654321, y0 |-> 87654, dy |-> 1500] >>

TrackPoint(t, j) ==
    <<Coord(Tracks[t].neg, Tracks[t].xb, Tracks[t].x0 + (j - 1) * Tracks[t].dx),
      Coord(Tracks[t].neg, Tracks[t].yb, Tracks[t].y0 + (j - 1) * Tracks[t].dy)>>

Track(t, n) == [j \in 1..n |-> TrackPoint(t, j)]

\* the batch sizes tried on track t
Sizes(t) == 0..(IF t = Len(Tracks) THEN MaxPts ELSE MaxShort)

(***************************************************************************)
(* Python values and the operations the client applies to them.  A JSON    *)
(* document, and a Python value in general, is [t |-> tag, v |-> value]:   *)
(* "null" is None, "str" holds a sequence of characters, "numstr" is a     *)
(* string holding a number's text, "invalid" is a body json.loads rejects. *)
(* An evaluation yields [exc |-> "none", val |-> value] or [exc |-> class].*)
(***************************************************************************)
JInvalid == [t |-> "invalid", v |-> <<>>]
JNull == [t |-> "null", v |-> <<>>]
JNum(n) == [t |-> "num", v |-> n]
JNumStr(n) == [t |-> "numstr", v |-> n]
JStr(s) == [t |-> "str", v |-> s]
JArr(a) == [t |-> "arr", v |-> a]
JObj(o) == [t |-> "obj", v |-> o]

Ok(x) == [exc |-> "none", val |-> x]
Raise(e) == [exc |-> e]

\* json.loads(response) (srv.py:86, 130, 188)
JsonLoads(doc) == IF doc.t = "invalid" THEN Raise("JSONDecodeError") ELSE Ok(doc)

\* obj[key]
GetItem(doc, key) ==
    IF doc.t = "obj"
        THEN IF key \in DOMAIN doc.v THEN Ok(doc.v[key]) ELSE Raise("KeyError")
        ELSE Raise("TypeError")

\* float(v)
Float(doc) ==
    IF doc.t \in {"num", "numstr"} THEN Ok(doc.v)
    ELSE IF doc.t = "str" THEN Raise("ValueError")
    ELSE Raise("TypeError")

\* (float(obj['x']), float(obj['y'])) (srv.py:88, 131)
XY(doc) ==
    LET gx == GetItem(doc, "x")
        fx == Float(gx.val)
        gy == GetItem(doc, "y")
        fy == Float(gy.val)
    IN  IF gx.exc # "none" THEN gx
        ELSE IF fx.exc # "none" THEN fx
        ELSE IF gy.exc # "none" THEN gy
        ELSE IF fy.exc # "none" THEN fy
        ELSE Ok(<<fx.val, fy.val>>)

\* what a `for` walks through: the entries of a list, the keys of a dict, the
\* characters of a string; nothing else can be walked
Iterate(doc) ==
    IF doc.t = "arr" THEN Ok(doc.v)
    ELSE IF doc.t = "obj" THEN Ok(<<JStr(<<"k">>)>>)
    ELSE IF doc.t \in {"str", "numstr"} THEN Ok(<<JStr(<<"c">>)>>)
    ELSE Raise("TypeError")

\* [(float(p['x']), float(p['y'])) for p in obj] (srv.py:131)
RECURSIVE XYEach(_)
XYEach(items) ==
    IF items = <<>> THEN Ok(<<>>)
    ELSE LET h == XY(Head(items))
             r == XYEach(Tail(items))
         IN  IF h.exc # "none" THEN h
             ELSE IF r.exc # "none" THEN r
             ELSE Ok(<<h.val>> \o r.val)

XYList(doc) ==
    LET it == Iterate(doc)
    IN  IF it.exc # "none" THEN it ELSE XYEach(it.val)

\* bool(v): None, '', 0, [] and {} are false
Truthy(doc) ==
    IF doc.t = "null" THEN FALSE
    ELSE IF doc.t = "num" THEN doc.v # 0
    ELSE IF doc.t = "obj" THEN DOMAIN doc.v # {}
    ELSE doc.v # <<>>

\* a or b
Or(a, b) == IF Truthy(a) THEN a ELSE b

\* obj.get(key) of a dict
Get(doc, key) == IF key \in DOMAIN doc.v THEN doc.v[key] ELSE JNull

\* the characters of str(n), n >= 0
RECURSIVE NatChars(_)
NatChars(n) == IF n < 10 THEN <<Digit[n + 1]>> ELSE Append(NatChars(n \div 10), Digit[(n % 10) + 1])

\* str(v), as a sequence of characters
Str(doc) ==
    IF doc.t = "str" THEN doc.v
    ELSE IF doc.t = "num" THEN (IF doc.v < 0 THEN <<"-">> \o NatChars(-doc.v) ELSE NatChars(doc.v))
    ELSE IF doc.t = "null" THEN <<"N", "o", "n", "e">>
    ELSE IF doc.t = "arr" THEN <<"[", "]">>
    ELSE <<"{", "}">>

Whitespace == {" ", "\t", "\n", "\r"}

\* s.lstrip()
RECURSIVE LStrip(_)
LStrip(s) == IF s # <<>> /\ Head(s) \in Whitespace THEN LStrip(Tail(s)) ELSE s

\* s.rstrip()
RECURSIVE RStrip(_)
RStrip(s) == IF s # <<>> /\ s[Len(s)] \in Whitespace THEN RStrip(SubSeq(s, 1, Len(s) - 1)) ELSE s

\* s.strip()
Strip(s) == RStrip(LStrip(s))

\* the string made of the characters s
RECURSIVE Text(_)
Text(s) == IF s = <<>> THEN "" ELSE Head(s) \o Text(Tail(s))

\* quote_plus: a blank becomes '+', a reserved character its escape
QuoteChar(ch) ==
    IF ch = " " THEN "+"
    ELSE IF ch = "&" THEN "%26"
    ELSE IF ch = "/" THEN "%2F"
    ELSE IF ch = ":" THEN "%3A"
    ELSE ch

RECURSIVE QuotePlus(_)
QuotePlus(s) == IF s = <<>> THEN "" ELSE QuoteChar(Head(s)) \o QuotePlus(Tail(s))

(***************************************************************************)
(* The remote service.                                                     *)
(***************************************************************************)
\* the coordinates the service computes for a point it reads as text `e`
Reprojected(c, e) == <<[axis |-> "x", s_srs |-> c[1], t_srs |-> c[2], of |-> e],
                       [axis |-> "y", s_srs |-> c[1], t_srs |-> c[2], of |-> e]>>

\* GET /trans?x=..&y=.. answers {"x": "<num>", "y": "<num>"}
PointDoc(c, e) == JObj([x |-> JNumStr(Reprojected(c, e)[1]), y |-> JNumStr(Reprojected(c, e)[2])])

\* GET /trans?data=.. answers one {"x":..,"y":..} per point read, in order
BatchDoc(c, seg) ==
    JArr([j \in 1..Len(seg) |->
            JObj([x |-> JNum(Reprojected(c, seg[j])[1]), y |-> JNum(Reprojected(c, seg[j])[2])])])

\* urlopen(..).read().decode() either raises or yields a body: `text` is how
\* the body begins, `doc` what it holds
Failed(e) == [exc |-> e, text |-> <<>>, doc |-> JInvalid]
Body(s, d) == [exc |-> "none", text |-> s, doc |-> d]

\* URLError and its subclass HTTPError are what urllib raises for a request that
\* fails; a timeout while the response is read is raised as it is
Failures == {Failed("URLError"), Failed("HTTPError"), Failed("TimeoutError")}

ErrorDoc == JObj([error |-> JStr(<<"n", "o">>)])

\* answers to a single-point request for the point written `e`
PointReplies(c, e) ==
    Failures \cup
    { Body(<<"{">>, PointDoc(c, e)),
      Body(<<"<">>, JInvalid),
      Body(<<"[">>, JArr(<<>>)),
      Body(<<"n">>, JNull),
      Body(<<"{">>, JObj([x |-> JNumStr(Reprojected(c, e)[1])])),
      Body(<<"{">>, JObj([x |-> JStr(<<"a">>), y |-> JStr(<<"b">>)])),
      Body(<<"{">>, ErrorDoc) }

\* answers to a batch request whose data segment reads as `seg`
BatchReplies(c, seg) ==
    Failures \cup
    { Body(<<"[">>, BatchDoc(c, seg)),
      Body(<<"<">>, JInvalid),
      Body(<<"n">>, JNull),
      Body(<<"{">>, ErrorDoc),
      Body(<<"[">>, JArr(<<ErrorDoc>>)) }

\* a GET of the service root answers with a page
PingReplies == Failures \cup { Body(<<"<">>, JInvalid) }

(***************************************************************************)
(* URLs.                                                                   *)
(***************************************************************************)
\* srv.py:69-75
PointUrl(c, p) ==
    "http://epsg.io/trans?x=" \o StrArg(p[1]) \o "&y=" \o StrArg(p[2]) \o "&z=0&s_srs="
        \o IntStr(c[1]) \o "&t_srs=" \o IntStr(c[2])

\* srv.py:97-100, 120
BatchUrl(c, pointData) ==
    "http://epsg.io/trans?data=" \o pointData \o "&s_srs=" \o IntStr(c[1]) \o "&t_srs=" \o IntStr(c[2])

\* api_key = api_key or os.environ.get("MAPTILER_API_KEY") (srv.py:45, 156)
EffectiveKey(given, env) == Or(given, env)

\* srv.py:47-50
PingUrl(key) ==
    IF Truthy(key)
        THEN "https://api.maptiler.com/coordinates/search/4326.json?key=" \o Text(Str(key)) \o "&limit=1"
        ELSE "https://epsg.io"

\* srv.py:136-138, 158-162
SearchUrl(q, key) ==
    IF Truthy(key)
        THEN "https://api.maptiler.com/coordinates/search/" \o QuotePlus(Str(q)) \o ".json?key=" \o Text(Str(key))
        ELSE "https://epsg.io/?q=" \o QuotePlus(Str(q)) \o "&format=json"

(***************************************************************************)
(* Exceptions.                                                             *)
(***************************************************************************)
\* the attributes the handlers read: URLError carries `reason`; HTTPError, its
\* subclass, carries `code` as well
HasAttr(e, a) ==
    \/ e = "HTTPError" /\ a \in {"code", "reason"}
    \/ e = "URLError" /\ a = "reason"

\* isinstance(e, cls) among the classes the handlers name
IsInstance(e, cls) ==
    \/ e = cls
    \/ e = "HTTPError" /\ cls = "URLError"
    \/ cls = "Exception"

\* the first attribute of `attrs` that e lacks, "" if it has them all
RECURSIVE Lacking(_, _)
Lacking(e, attrs) ==
    IF attrs = <<>> THEN ""
    ELSE IF ~HasAttr(e, Head(attrs)) THEN Head(attrs)
    ELSE Lacking(e, Tail(attrs))

\* log.error(fmt, url, e.<a1>, e.<a2>..): the arguments are evaluated first, so
\* a missing attribute raises AttributeError and nothing is logged
LogError(url, e, attrs) ==
    IF Lacking(e, attrs) # "" THEN [exc |-> "AttributeError", log |-> <<>>]
    ELSE [exc |-> "none", log |-> <<[url |-> url, error |-> e]>>]

\* except (URLError, HTTPError) as err: log.error(..err.code, err.reason);
\* raise (srv.py:82-84, 126-128)
OnRequestError(url, e) ==
    IF ~(IsInstance(e, "URLError") \/ IsInstance(e, "HTTPError")) THEN [exc |-> e, log |-> <<>>]
    ELSE IF LogError(url, e, <<"code", "reason">>).exc # "none" THEN LogError(url, e, <<"code", "reason">>)
    ELSE [exc |-> e, log |-> LogError(url, e, <<"code", "reason">>).log]

(***************************************************************************)
(* ping.                                                                   *)
(***************************************************************************)
NoRet == [kind |-> "none"]
Returned(v) == [kind |-> "return", val |-> v]
Raised(e) == [kind |-> "raise", exc |-> e]

\* OnPingError whose first clause formats e.code, as the handlers of reprojPt do
OnPingErrorReadsCode(url, e) ==
    IF IsInstance(e, "URLError") /\ LogError(url, e, <<"code", "reason">>).exc # "none"
        THEN [ret |-> Raised(LogError(url, e, <<"code", "reason">>).exc), log |-> <<>>]
    ELSE IF IsInstance(e, "URLError")
        THEN [ret |-> Returned(FALSE), log |-> LogError(url, e, <<"code", "reason">>).log]
    ELSE [ret |-> Raised(e), log |-> <<>>]

\* the except clauses of ping, tried in order (srv.py:56-63)
OnPingError(url, e) ==
    IF IsInstance(e, "URLError") THEN
        (IF LogError(url, e, <<"reason">>).exc # "none"
            THEN [ret |-> Raised(LogError(url, e, <<"reason">>).exc), log |-> <<>>]
            ELSE [ret |-> Returned(FALSE), log |-> LogError(url, e, <<"reason">>).log])
    ELSE IF IsInstance(e, "HTTPError") THEN
        (IF LogError(url, e, <<"code">>).exc # "none"
            THEN [ret |-> Raised(LogError(url, e, <<"code">>).exc), log |-> <<>>]
            ELSE [ret |-> Returned(FALSE), log |-> LogError(url, e, <<"code">>).log])
    ELSE [ret |-> Raised(e), log |-> <<>>]

\* the try statement of ping (srv.py:52-63), given the answer
PingBody(url, reply) ==
    IF reply.exc = "none" THEN [ret |-> Returned(TRUE), log |-> <<>>]
    ELSE OnPingError(url, reply.exc)

(***************************************************************************)
(* reprojPt and reprojPts.                                                 *)
(***************************************************************************)
\* the per-request character budget of the point data (srv.py:109)
Limit == 4000

\* the body of reprojPt after the URL is built (srv.py:79-88), given the answer
ReprojPtBody(url, reply) ==
    IF reply.exc # "none"
        THEN [ret |-> Raised(OnRequestError(url, reply.exc).exc), log |-> OnRequestError(url, reply.exc).log]
    ELSE IF JsonLoads(reply.doc).exc # "none"
        THEN [ret |-> Raised(JsonLoads(reply.doc).exc), log |-> <<>>]
    ELSE IF XY(reply.doc).exc # "none"
        THEN [ret |-> Raised(XY(reply.doc).exc), log |-> <<>>]
    ELSE [ret |-> Returned(XY(reply.doc).val), log |-> <<>>]

\* the text reprojPt puts in its URL for the point p (srv.py:71-72)
PointText(p) == StrArg(p[1]) \o "," \o StrArg(p[2])

\* Entry without the shortcut of srv.py:93-95: a batch of one is chunked too
EntryAlwaysChunks(pts) == IF Len(pts) = 0 THEN "join" ELSE "chunk"

\* where reprojPts goes first: a batch of one is handed to reprojPt
\* (srv.py:93-95), any other is chunked (srv.py:104-116)
Entry(pts) ==
    IF Len(pts) = 1 THEN "reprojPt"
    ELSE IF Len(pts) = 0 THEN "join"
    ELSE "chunk"

\* return [EPSGIO.reprojPt(epsg1, epsg2, x, y)] (srv.py:95)
ListOf(r) == IF r.kind = "return" THEN Returned(<<r.val>>) ELSE r

\* ChunkPoint without the flush of srv.py:114-115: the chunk still being
\* accumulated when the data ends is never emitted
ChunkPointNoFlush(pt, pts, p, last) ==
    LET l == SumLen(pt) + Len(pt)
        fits == l + Len(p) < Limit
    IN  [part |-> IF fits THEN Append(pt, p) ELSE <<p>>,
         parts |-> IF fits THEN pts ELSE Append(pts, pt)]

\* ChunkPoint with `<=` for the `<` of srv.py:109
ChunkPointInclusive(pt, pts, p, last) ==
    LET l == SumLen(pt) + Len(pt)
        fits == l + Len(p) <= Limit
        pt2 == IF fits THEN Append(pt, p) ELSE <<p>>
        pts2 == IF fits THEN pts ELSE Append(pts, pt)
    IN  [part |-> pt2, parts |-> IF last THEN Append(pts2, pt2) ELSE pts2]

\* ChunkPoint opening the new chunk empty: `part = []` for the `part = [p]`
\* of srv.py:113
ChunkPointStartsEmpty(pt, pts, p, last) ==
    LET l == SumLen(pt) + Len(pt)
        fits == l + Len(p) < Limit
        pt2 == IF fits THEN Append(pt, p) ELSE <<>>
        pts2 == IF fits THEN pts ELSE Append(pts, pt)
    IN  [part |-> pt2, parts |-> IF last THEN Append(pts2, pt2) ELSE pts2]

\* one turn of the chunking loop (srv.py:108-115) for the encoded point p
ChunkPoint(pt, pts, p, last) ==
    LET l == SumLen(pt) + Len(pt)
        fits == l + Len(p) < Limit
        pt2 == IF fits THEN Append(pt, p) ELSE <<p>>
        pts2 == IF fits THEN pts ELSE Append(pts, pt)
    IN  [part |-> pt2, parts |-> IF last THEN Append(pts2, pt2) ELSE pts2]

\* Extend putting the new points in front of the earlier ones
ExtendAtFront(res, got) == got \o res

\* result.extend(..) (srv.py:131)
Extend(res, got) == res \o got

\* RequestTurn swallowing a failure: the chunk is skipped and the loop goes on
RequestTurnSkipsFailure(url, reply, res) ==
    IF reply.exc # "none" \/ JsonLoads(reply.doc).exc # "none" \/ XYList(reply.doc).exc # "none"
        THEN [exc |-> "none", log |-> <<>>, result |-> res]
        ELSE [exc |-> "none", log |-> <<>>, result |-> res \o XYList(reply.doc).val]

\* one turn of the request loop (srv.py:120-131), given the answer: the
\* exception that leaves the loop, what is logged, and `result` afterwards
RequestTurn(url, reply, res) ==
    IF reply.exc # "none"
        THEN [exc |-> OnRequestError(url, reply.exc).exc, log |-> OnRequestError(url, reply.exc).log, result |-> res]
    ELSE IF JsonLoads(reply.doc).exc # "none"
        THEN [exc |-> JsonLoads(reply.doc).exc, log |-> <<>>, result |-> res]
    ELSE IF XYList(reply.doc).exc # "none"
        THEN [exc |-> XYList(reply.doc).exc, log |-> <<>>, result |-> res]
    ELSE [exc |-> "none", log |-> <<>>, result |-> Extend(res, XYList(reply.doc).val)]

(***************************************************************************)
(* _normalize_results and search.                                          *)
(***************************************************************************)
\* CodeOf without the strip() of srv.py:146
CodeOfUnstripped(item) ==
    Str(Or(Or(Or(Get(item, "code"), Get(item, "epsg")), Get(item, "identifier")), JStr(<<>>)))

\* str(item.get('code') or item.get('epsg') or item.get('identifier') or '').strip()
\* (srv.py:146)
CodeOf(item) ==
    Strip(Str(Or(Or(Or(Get(item, "code"), Get(item, "epsg")), Get(item, "identifier")), JStr(<<>>))))

\* item.get('name') or item.get('title') or '' (srv.py:147)
NameOf(item) == Or(Or(Get(item, "name"), Get(item, "title")), JStr(<<>>))

\* the loop of _normalize_results (srv.py:144-150); an entry that is no dict
\* has no `get`
RECURSIVE NormalizeEach(_)
NormalizeEach(items) ==
    IF items = <<>> THEN Ok(<<>>)
    ELSE IF Head(items).t # "obj" THEN Raise("AttributeError")
    ELSE LET item == Head(items)
             rest == NormalizeEach(Tail(items))
         IN  IF rest.exc # "none" THEN rest
             ELSE IF CodeOf(item) = <<>> \/ ~Truthy(NameOf(item)) THEN rest
             ELSE Ok(<<[code |-> CodeOf(item), name |-> NameOf(item)]>> \o rest.val)

\* obj.get('results') or obj.get('crs') or obj.get('coordinateSystems') or []
\* (srv.py:142)
ResultsOf(obj) ==
    Or(Or(Or(Get(obj, "results"), Get(obj, "crs")), Get(obj, "coordinateSystems")), JArr(<<>>))

\* _normalize_results(obj) (srv.py:141-152); only a dict has `get`
NormalizeResults(obj) ==
    IF obj.t # "obj" THEN Raise("AttributeError")
    ELSE IF Iterate(ResultsOf(obj)).exc # "none" THEN Iterate(ResultsOf(obj))
    ELSE NormalizeEach(Iterate(ResultsOf(obj)).val)

\* OnSearchError that logs and re-raises, as the handlers of reprojPt do
OnSearchErrorReraises(url, e) ==
    [ret |-> Raised(OnRequestError(url, e).exc), log |-> OnRequestError(url, e).log]

\* the except clauses of search, tried in order (srv.py:169-174)
OnSearchError(url, e) ==
    IF IsInstance(e, "HTTPError") THEN
        (IF LogError(url, e, <<"code", "reason">>).exc # "none"
            THEN [ret |-> Raised(LogError(url, e, <<"code", "reason">>).exc), log |-> <<>>]
            ELSE [ret |-> Returned(<<>>), log |-> LogError(url, e, <<"code", "reason">>).log])
    ELSE IF IsInstance(e, "URLError") THEN
        (IF LogError(url, e, <<"reason">>).exc # "none"
            THEN [ret |-> Raised(LogError(url, e, <<"reason">>).exc), log |-> <<>>]
            ELSE [ret |-> Returned(<<>>), log |-> LogError(url, e, <<"reason">>).log])
    ELSE [ret |-> Raised(e), log |-> <<>>]

\* response.lstrip().startswith('<') (srv.py:180)
LooksLikeHtml(text) == LStrip(text) # <<>> /\ Head(LStrip(text)) = "<"

\* search after the URL is built (srv.py:167-197), given the answer
SearchBody(url, reply) ==
    IF reply.exc # "none" THEN OnSearchError(url, reply.exc)
    ELSE IF reply.text = <<>>
        THEN [ret |-> Returned(<<>>), log |-> <<[url |-> url, error |-> "empty response"]>>]
    ELSE IF LooksLikeHtml(reply.text)
        THEN [ret |-> Returned(<<>>), log |-> <<[url |-> url, error |-> "HTML response"]>>]
    ELSE IF JsonLoads(reply.doc).exc = "JSONDecodeError"
        THEN [ret |-> Returned(<<>>), log |-> <<[url |-> url, error |-> "JSONDecodeError"]>>]
    ELSE IF NormalizeResults(reply.doc).exc # "none"
        THEN [ret |-> Raised(NormalizeResults(reply.doc).exc), log |-> <<>>]
    ELSE [ret |-> Returned(NormalizeResults(reply.doc).val), log |-> <<>>]

(***************************************************************************)
(* Inputs and answers of ping and search.                                  *)
(***************************************************************************)
\* the api_key argument and the MAPTILER_API_KEY variable of the environment
ApiKeys == {JNull, JStr(<<>>), JStr(<<"K">>)}
EnvKeys == {JNull, JStr(<<"E">>)}

Queries == {JStr(<<"4", "3", "2", "6">>), JStr(<<"u", "t", "m", " ", "3", "1", "/", "n">>), JNum(2154)}

\* entries of a result collection, under each documented field name
EntryCodeName == JObj([code |-> JStr(<<"4", "3", "2", "6">>), name |-> JStr(<<"W", "G", "S">>)])
EntryEpsgTitle == JObj([epsg |-> JNum(2154), title |-> JStr(<<"L", "9", "3">>)])
EntryIdentifier ==
    JObj([code |-> JStr(<<>>), identifier |-> JStr(<<" ", "3", "8", "5", "7", "\n">>),
          name |-> JStr(<<>>), title |-> JStr(<<"W", "e", "b">>)])
EntryBlankCode ==
    JObj([code |-> JStr(<<" ">>), epsg |-> JStr(<<"2", "7", "7", "0", "0">>), name |-> JStr(<<"O", "S">>)])
EntryNoCode == JObj([name |-> JStr(<<"n">>)])
EntryNoName == JObj([code |-> JStr(<<"1">>), title |-> JNull])

\* documents the search endpoints can answer with
SearchDocs ==
    { JObj([results |-> JArr(<<EntryCodeName, EntryEpsgTitle, EntryIdentifier>>)]),
      JObj([results |-> JArr(<<>>), crs |-> JArr(<<EntryEpsgTitle, EntryNoCode, EntryCodeName>>)]),
      JObj([results |-> JNull,
            coordinateSystems |-> JArr(<<EntryIdentifier, EntryNoName, EntryCodeName, EntryNoCode>>)]),
      JObj([results |-> JArr(<<EntryCodeName, EntryBlankCode, EntryEpsgTitle>>),
            crs |-> JArr(<<EntryIdentifier>>)]),
      JObj([total |-> JNum(0)]),
      JObj([results |-> JArr(<<EntryCodeName, JStr(<<"x">>)>>)]),
      JObj([results |-> JNum(5)]),
      JObj([results |-> JObj([a |-> EntryCodeName])]),
      JArr(<<EntryCodeName>>),
      JArr(<<>>),
      JNull }

\* how a document begins on the wire
FirstChar(doc) == IF doc.t = "obj" THEN "{" ELSE IF doc.t = "arr" THEN "[" ELSE "n"

\* answers to a search request: a failure, a body that holds no document
\* (empty, blank, a page, a page after blank lines, other text), or a document
SearchReplies ==
    Failures
    \cup { Body(<<>>, JInvalid), Body(<<" ">>, JInvalid), Body(<<"<", "h">>, JInvalid),
           Body(<<"\n", " ", "<">>, JInvalid), Body(<<"o", "k">>, JInvalid) }
    \cup { Body(<<FirstChar(d)>>, d) : d \in SearchDocs }

(***************************************************************************)
(* The GPX import operator (operators/io_import_gpx.py).                   *)
(***************************************************************************)
\* Python's None, and a value that is present
None == <<>>
Some(v) == <<v>>

\* the state before any operator or scene is there
NoOperator == [filepath |-> None]
NoScene == [crs |-> None, origin |-> None, broken |-> FALSE, objects |-> {}]

\* the CRS of GPX coordinates (io_import_gpx.py:190)
gpxCRS == 4326

\* GeoScene (geoscene.py): the georeference kept with the scene
HasCRS(scn) == scn.crs # None
IsBroken(scn) == scn.broken
IsGeoref(scn) == scn.crs # None /\ scn.origin # None
SetCrs(scn, code) == [scn EXCEPT !.crs = Some(code)]
SetOriginPrj(scn, dx, dy) == [scn EXCEPT !.origin = Some(<<dx, dy>>)]

\* Reproj.pts (core/proj/reproj.py) on a list of coordinates: the engine
\* answers one point per point, answers nothing, or raises
ReprojOutcomes == {"points", "nothing", "raise"}
Projected(crs, p) == IF crs = gpxCRS THEN p ELSE <<100 * p[1], 100 * p[2]>>
Pts(crs, coords, outcome) ==
    IF outcome = "points" THEN [j \in 1..Len(coords) |-> Projected(crs, coords[j])] ELSE <<>>

\* BBOX (core/basics.py): the extent of a set of coordinates and its center
BBOX(coords) ==
    LET xs == { coords[j][1] : j \in 1..Len(coords) }
        ys == { coords[j][2] : j \in 1..Len(coords) }
    IN  [xmin |-> CHOOSE x \in xs : \A z \in xs : x <= z,
         ymin |-> CHOOSE y \in ys : \A z \in ys : y <= z,
         xmax |-> CHOOSE x \in xs : \A z \in xs : x >= z,
         ymax |-> CHOOSE y \in ys : \A z \in ys : y >= z]
Center(bbox) == <<(bbox.xmin + bbox.xmax) \div 2, (bbox.ymin + bbox.ymax) \div 2>>

\* _parse_tracks (io_import_gpx.py:103-138): a segment is kept with two
\* points or more, a track with one kept segment or more; a file that does
\* not parse is reported and gives no track
KeptSegment(seg) == Len(seg) >= 2
WithKeptSegments(trk) == [name |-> trk.name, segments |-> SelectSeq(trk.segments, KeptSegment)]
HasSegments(trk) == trk.segments # <<>>
ParseTracks(file) ==
    IF ~file.parses
      THEN [tracks |-> <<>>, report |-> <<"Unable to parse GPX file, check logs">>]
      ELSE [tracks |-> SelectSeq([j \in 1..Len(file.trk) |-> WithKeptSegments(file.trk[j])], HasSegments),
            report |-> <<>>]

\* _project_tracks (io_import_gpx.py:140-163): all_coords collects what the
\* zip of the projected coordinates with the segment yields
RECURSIVE Concat(_)
Concat(ss) == IF ss = <<>> THEN <<>> ELSE Head(ss) \o Concat(Tail(ss))
ProjectSegments(crs, segments, outcome) ==
    [j \in 1..Len(segments) |-> Pts(crs, segments[j], outcome)]
ProjectTracks(tracks, crs, outcome) ==
    LET projected == [j \in 1..Len(tracks) |->
                        [name |-> tracks[j].name,
                         segments |-> ProjectSegments(crs, tracks[j].segments, outcome)]]
        all_coords == Concat([j \in 1..Len(tracks) |-> Concat(projected[j].segments)])
    IN  [tracks |-> projected,
         bbox |-> IF all_coords = <<>> THEN None ELSE Some(BBOX(all_coords))]

\* the objects execute links to the scene (io_import_gpx.py:248-266)
Created(slf, tracks) ==
    IF slf.separate_objects THEN { tracks[j].name : j \in 1..Len(tracks) }
    ELSE { slf.filepath[1].name }

\* how execute ends: the scene it leaves, what it reported, what it returns
Ends(scn, report, r) == [geoscn |-> scn, report |-> report, ret |-> r]

\* execute (io_import_gpx.py:173-285); reprojInit tells whether Reproj(...)
\* could be built, ptsOutcome what its pts answers
Execute(slf, scn, reprojInit, ptsOutcome) ==
    LET parsed == ParseTracks(slf.filepath[1])
        tracks == parsed.tracks
        scn1 == IF ~HasCRS(scn) THEN SetCrs(scn, gpxCRS) ELSE scn
        prj == ProjectTracks(tracks, scn1.crs[1], ptsOutcome)
        center == Center(prj.bbox[1])
        scn2 == IF ~IsGeoref(scn1) THEN SetOriginPrj(scn1, center[1], center[2]) ELSE scn1
    IN  IF tracks = <<>> THEN
            Ends(scn, parsed.report, Returned("CANCELLED"))
        ELSE IF IsBroken(scn) THEN
            Ends(scn, <<"Scene georef is broken, please fix it beforehand">>, Returned("CANCELLED"))
        ELSE IF ~reprojInit THEN
            Ends(scn1, <<"Unable to init reprojection, check logs">>, Returned("CANCELLED"))
        ELSE IF ptsOutcome = "raise" THEN
            Ends(scn1, <<>>, Raised("Exception"))
        ELSE IF prj.bbox = None THEN
            Ends(scn1, <<"No coordinates found in GPX file">>, Returned("CANCELLED"))
        ELSE IF slf.elevation_mode = "OBJECT" /\ slf.ground_object \notin scn2.objects THEN
            Ends(scn2, <<"Cannot find selected ground object">>, Returned("CANCELLED"))
        ELSE
            Ends([scn2 EXCEPT !.objects = @ \cup Created(slf, prj.tracks)], <<>>, Returned("FINISHED"))

\* GPX files: one that does not parse, one without track, one whose only
\* segment has a single point, one track of one segment, two tracks of which
\* one has a short segment
Segment1 == << <<2, 44>>, <<4, 46>>, <<6, 48>> >>
Segment2 == << <<8, 40>>, <<10, 42>> >>
GpxFiles ==
    { [name |-> "bad", parses |-> FALSE, trk |-> <<>>],
      [name |-> "empty", parses |-> TRUE, trk |-> <<>>],
      [name |-> "dot", parses |-> TRUE, trk |-> << [name |-> "Track 1", segments |-> << << <<2, 44>> >> >>] >>],
      [name |-> "walk", parses |-> TRUE, trk |-> << [name |-> "Walk", segments |-> <<Segment1>>] >>],
      [name |-> "tour", parses |-> TRUE,
       trk |-> << [name |-> "Day 1", segments |-> <<Segment1, << <<6, 48>> >> >>],
                  [name |-> "Day 2", segments |-> <<Segment2>>] >>] }

\* the properties of the operator
Operators ==
    { [filepath |-> Some(f), elevation_mode |-> m, ground_object |-> "Ground", separate_objects |-> sep] :
        f \in GpxFiles, m \in {"GPS", "CONSTANT", "OBJECT"}, sep \in BOOLEAN }

\* the scenes execute can find: with or without CRS, with or without origin,
\* sound or broken (an origin without CRS is broken), with or without the
\* ground object
Scenes ==
    { scn \in [crs : {None, Some(gpxCRS), Some(3857)}, origin : {None, Some(<<500, 4500>>)},
               broken : BOOLEAN, objects : {{}, {"Ground"}}] :
        (scn.crs = None /\ scn.origin # None) => scn.broken }

(***************************************************************************)
(* The calls.                                                              *)
(***************************************************************************)
Init ==
    /\ pc = "idle"
    /\ op = "none"
    /\ apiKey = JNull
    /\ envKey = JNull
    /\ query = JNull
    /\ epsg = <<0, 0>>
    /\ points = <<>>
    /\ i = 1
    /\ part = <<>>
    /\ parts = <<>>
    /\ segs = <<>>
    /\ k = 1
    /\ result = <<>>
    /\ requests = <<>>
    /\ replies = <<>>
    /\ logged = <<>>
    /\ ret = NoRet
    /\ self = NoOperator
    /\ geoscn = NoScene
    /\ georef0 = NoScene
    /\ reported = <<>>

\* a caller invokes EPSGIO.ping(api_key)
CallPing ==
    /\ pc = "idle"
    /\ apiKey' \in ApiKeys
    /\ envKey' \in EnvKeys
    /\ op' = "ping"
    /\ pc' = "ping"
    /\ UNCHANGED <<query, epsg, points, i, part, parts, segs, k, result, requests, replies, logged, ret, self, geoscn, georef0, reported>>

\* ping (srv.py:45-63)
Ping ==
    /\ pc = "ping"
    /\ \E reply \in PingReplies :
        LET url == PingUrl(EffectiveKey(apiKey, envKey))
            out == PingBody(url, reply)
        IN  /\ requests' = Append(requests, url)
            /\ replies' = Append(replies, reply)
            /\ logged' = logged \o out.log
            /\ ret' = out.ret
    /\ pc' = "done"
    /\ UNCHANGED <<op, apiKey, envKey, query, epsg, points, i, part, parts, segs, k, result, self, geoscn, georef0, reported>>

\* a caller invokes EPSGIO.search(query, api_key)
CallSearch ==
    /\ pc = "idle"
    /\ query' \in Queries
    /\ apiKey' \in ApiKeys
    /\ envKey' \in EnvKeys
    /\ op' = "search"
    /\ pc' = "search"
    /\ UNCHANGED <<epsg, points, i, part, parts, segs, k, result, requests, replies, logged, ret, self, geoscn, georef0, reported>>

\* search (srv.py:156-197)
Search ==
    /\ pc = "search"
    /\ \E reply \in SearchReplies :
        LET url == SearchUrl(query, EffectiveKey(apiKey, envKey))
            out == SearchBody(url, reply)
        IN  /\ requests' = Append(requests, url)
            /\ replies' = Append(replies, reply)
            /\ logged' = logged \o out.log
            /\ ret' = out.ret
    /\ pc' = "done"
    /\ UNCHANGED <<op, apiKey, envKey, query, epsg, points, i, part, parts, segs, k, result, self, geoscn, georef0, reported>>

\* a caller invokes EPSGIO.reprojPt(epsg1, epsg2, x1, y1)
CallReprojPt ==
    /\ pc = "idle"
    /\ \E c \in CRSPairs, t \in 1..Len(Tracks), j \in 1..MaxShort :
        /\ epsg' = c
        /\ points' = <<TrackPoint(t, j)>>
    /\ op' = "reprojPt"
    /\ pc' = "reprojPt"
    /\ UNCHANGED <<apiKey, envKey, query, i, part, parts, segs, k, result, requests, replies, logged, ret, self, geoscn, georef0, reported>>

\* a caller invokes EPSGIO.reprojPts(epsg1, epsg2, points) (srv.py:93-106)
CallReprojPts ==
    /\ pc = "idle"
    /\ \E c \in CRSPairs, t \in 1..Len(Tracks) : \E n \in Sizes(t) :
        /\ epsg' = c
        /\ points' = Track(t, n)
        /\ pc' = Entry(Track(t, n))
    /\ op' = "reprojPts"
    /\ i' = 1
    /\ part' = <<>>
    /\ parts' = <<>>
    /\ UNCHANGED <<apiKey, envKey, query, segs, k, result, requests, replies, logged, ret, self, geoscn, georef0, reported>>

\* reprojPt (srv.py:69-88); reprojPts returns its result in a list (srv.py:95)
ReprojPt ==
    /\ pc = "reprojPt"
    /\ \E reply \in PointReplies(epsg, PointText(points[1])) :
        LET url == PointUrl(epsg, points[1])
            out == ReprojPtBody(url, reply)
        IN  /\ requests' = Append(requests, url)
            /\ replies' = Append(replies, reply)
            /\ logged' = logged \o out.log
            /\ ret' = IF op = "reprojPts" THEN ListOf(out.ret) ELSE out.ret
    /\ pc' = "done"
    /\ UNCHANGED <<op, apiKey, envKey, query, epsg, points, i, part, parts, segs, k, result, self, geoscn, georef0, reported>>

\* one turn of `for i,p in enumerate(data)` (srv.py:107-115)
Chunk ==
    /\ pc = "chunk"
    /\ LET next == ChunkPoint(part, parts, EncodePoint(points[i]), i = Len(points))
       IN  /\ part' = next.part
           /\ parts' = next.parts
    /\ i' = i + 1
    /\ pc' = IF i = Len(points) THEN "join" ELSE "chunk"
    /\ UNCHANGED <<op, apiKey, envKey, query, epsg, points, segs, k, result, requests, replies, logged, ret, self, geoscn, georef0, reported>>

\* parts = [';'.join(part) for part in parts]; result = [] (srv.py:116-118).
\* segs keeps what each joined string reads as when split at ';' again.
JoinParts ==
    /\ pc = "join"
    /\ parts' = [j \in 1..Len(parts) |-> Join(parts[j])]
    /\ segs' = parts
    /\ result' = <<>>
    /\ k' = 1
    /\ pc' = "request"
    /\ UNCHANGED <<op, apiKey, envKey, query, epsg, points, i, part, requests, replies, logged, ret, self, geoscn, georef0, reported>>

\* one turn of `for part in parts` (srv.py:119-131)
Request ==
    /\ pc = "request"
    /\ k <= Len(parts)
    /\ \E reply \in BatchReplies(epsg, segs[k]) :
        LET url == BatchUrl(epsg, parts[k])
            turn == RequestTurn(url, reply, result)
        IN  /\ requests' = Append(requests, url)
            /\ replies' = Append(replies, reply)
            /\ logged' = logged \o turn.log
            /\ result' = turn.result
            /\ IF turn.exc # "none"
                 THEN /\ ret' = Raised(turn.exc)
                      /\ pc' = "done"
                      /\ k' = k
                 ELSE /\ k' = k + 1
                      /\ UNCHANGED <<pc, ret>>
    /\ UNCHANGED <<op, apiKey, envKey, query, epsg, points, i, part, parts, segs, self, geoscn, georef0, reported>>

\* return result (srv.py:133)
ReturnResult ==
    /\ pc = "request"
    /\ k > Len(parts)
    /\ ret' = Returned(result)
    /\ pc' = "done"
    /\ UNCHANGED <<op, apiKey, envKey, query, epsg, points, i, part, parts, segs, k, result, requests, replies, logged, self, geoscn, georef0, reported>>

\* the host invokes IMPORTGIS_OT_gpx.execute on a scene
CallExecute ==
    /\ pc = "idle"
    /\ self' \in Operators
    /\ geoscn' \in Scenes
    /\ georef0' = geoscn'
    /\ op' = "execute"
    /\ pc' = "execute"
    /\ UNCHANGED <<apiKey, envKey, query, epsg, points, i, part, parts, segs, k, result, requests, replies, logged, ret, reported>>

\* execute (io_import_gpx.py:173-285)
ExecuteCall ==
    /\ pc = "execute"
    /\ \E reprojInit \in BOOLEAN, ptsOutcome \in ReprojOutcomes :
        LET end == Execute(self, geoscn, reprojInit, ptsOutcome)
        IN  /\ geoscn' = end.geoscn
            /\ reported' = reported \o end.report
            /\ ret' = end.ret
    /\ pc' = "done"
    /\ UNCHANGED <<op, apiKey, envKey, query, epsg, points, i, part, parts, segs, k, result, requests, replies, logged, self, georef0>>

Next ==
    \/ CallPing
    \/ Ping
    \/ CallSearch
    \/ Search
    \/ CallReprojPt
    \/ CallReprojPts
    \/ ReprojPt
    \/ Chunk
    \/ JoinParts
    \/ Request
    \/ ReturnResult
    \/ CallExecute
    \/ ExecuteCall

Spec == Init /\ [][Next]_vars

(***************************************************************************)
(* Properties of reprojPts.                                                *)
(***************************************************************************)
\* the concatenation of a sequence of sequences
RECURSIVE Flatten(_)
Flatten(ss) == IF ss = <<>> THEN <<>> ELSE Head(ss) \o Flatten(Tail(ss))

\* the text the service is sent for point j of the batch: reprojPt writes the
\* coordinates as given, the batch encoding rounds them
SentAs(j) == IF Len(points) = 1 THEN PointText(points[j]) ELSE EncodePoint(points[j])

\* the reply makes the client fail: the request raised, or the body is not
\* what the client can parse
FailsBatch(reply) ==
    reply.exc # "none" \/ JsonLoads(reply.doc).exc # "none" \/ XYList(reply.doc).exc # "none"

\* C1: a call of reprojPts on n >= 1 points that returns normally returns
\* exactly n points, and entry j is the reprojection of point j, whatever the
\* number of chunks the batch was split over.
C1_OrderPreserved ==
    (op = "reprojPts" /\ Len(points) >= 1 /\ ret.kind = "return") =>
        /\ Len(ret.val) = Len(points)
        /\ \A j \in 1..Len(points) : ret.val[j] = Reprojected(epsg, SentAs(j))

C1_Witness ==
    /\ op = "reprojPts"
    /\ ret.kind = "return"
    /\ Len(parts) = 3
    /\ Len(ret.val) = MaxPts

\* C2: for a batch of 2 or more points, the chunks built by the chunking
\* loop, concatenated in chunk order, are exactly the encoded input points in
\* input order (none dropped, duplicated or reordered, the last accumulated
\* chunk included), and they are what the requests carry.
C2_ChunksPartitionInput ==
    (op = "reprojPts" /\ Len(points) >= 2) =>
        /\ pc = "join" => Flatten(parts) = Data(points)
        /\ pc = "request" /\ k = 1 =>
            /\ Flatten(segs) = Data(points)
            /\ parts = [j \in 1..Len(segs) |-> Join(segs[j])]

C2_Witness ==
    /\ op = "reprojPts"
    /\ pc = "join"
    /\ Len(parts) = 3
    /\ Len(parts[3]) < Len(parts[2])
    /\ Flatten(parts) = Data(points)

\* the length of the data segment once point p is added to the joined chunk
\* `joined` read as `seg`
LengthWith(seg, joined, p) == (IF seg = <<>> THEN 0 ELSE Len(joined) + 1) + Len(p)

\* C3: for a batch of 2 or more points, the point data of every request is
\* strictly shorter than 4000 characters, and a chunk is closed only when the
\* next point would bring it to 4000 characters or more.
C3_ChunkBudget ==
    (op = "reprojPts" /\ Len(points) >= 2 /\ pc \in {"request", "done"}) =>
        /\ \A j \in 1..Len(parts) : Len(parts[j]) < Limit
        /\ \A j \in 1..Len(requests) : requests[j] = BatchUrl(epsg, parts[j])
        /\ \A j \in 1..(Len(parts) - 1) : LengthWith(segs[j], parts[j], segs[j + 1][1]) >= Limit

C3_Witness ==
    /\ op = "reprojPts"
    /\ pc = "request"
    /\ Len(parts) >= 2
    /\ Len(requests) = 2
    /\ LengthWith(segs[1], parts[1], segs[2][1]) = Limit

\* C4: the chunk requests are issued in chunk order, each at most once; when
\* the request or the parsing of the answer of chunk j fails, the call raises,
\* returns nothing, and no request for a later chunk is issued.
C4_SequentialFailFast ==
    (op = "reprojPts" /\ Len(points) >= 2) =>
        /\ Len(requests) <= Len(parts)
        /\ Len(replies) = Len(requests)
        /\ \A j \in 1..Len(requests) :
            /\ pc \in {"request", "done"}
            /\ requests[j] = BatchUrl(epsg, parts[j])
            /\ FailsBatch(replies[j]) => j = Len(requests) /\ pc = "done" /\ ret.kind = "raise"
        /\ ret.kind = "return" =>
            /\ Len(requests) = Len(parts)
            /\ \A j \in 1..Len(replies) : ~FailsBatch(replies[j])
        /\ pc = "request" => Len(requests) = k - 1 /\ ret = NoRet

C4_Witness ==
    /\ op = "reprojPts"
    /\ pc = "done"
    /\ ret.kind = "raise"
    /\ Len(parts) = 3
    /\ Len(requests) = 2
    /\ replies[2].exc = "none"
    /\ ~FailsBatch(replies[1])

\* C10: for a batch of exactly one point, reprojPts issues exactly one request,
\* the single-point request of reprojPt for that point, and ends as reprojPt
\* ends on the same answer: it returns the one-element list of reprojPt's
\* result, or raises what reprojPt raises.
C10_SinglePointShortcut ==
    (op = "reprojPts" /\ Len(points) = 1) =>
        /\ pc # "done" => requests = <<>>
        /\ pc = "done" =>
            /\ requests = <<PointUrl(epsg, points[1])>>
            /\ Len(replies) = 1
            /\ LET same == ReprojPtBody(requests[1], replies[1])
               IN  /\ same.ret.kind = "return" => ret = Returned(<<same.ret.val>>)
                   /\ same.ret.kind = "raise" => ret = same.ret
                   /\ logged = same.log

C10_Witness ==
    /\ op = "reprojPts"
    /\ Len(points) = 1
    /\ pc = "done"
    /\ ret = Returned(<<Reprojected(epsg, PointText(points[1]))>>)

\* every encoded point of the batch is shorter than the budget
EveryPointFits == \A j \in 1..Len(points) : Len(EncodePoint(points[j])) < Limit

\* C11: for a batch of 2 or more points, each encoded in fewer than 4000
\* characters, every chunk built holds at least one point: no request carries
\* an empty data segment, and there are never more requests than points.
C11_NoEmptyChunk ==
    (op = "reprojPts" /\ Len(points) >= 2 /\ pc \in {"join", "request", "done"} /\ EveryPointFits) =>
        /\ pc = "join" => \A j \in 1..Len(parts) : parts[j] # <<>>
        /\ pc # "join" =>
            /\ \A j \in 1..Len(parts) : segs[j] # <<>> /\ parts[j] # ""
            /\ \A j \in 1..Len(requests) : requests[j] # BatchUrl(epsg, "")
        /\ Len(parts) <= Len(points)
        /\ Len(requests) <= Len(points)

C11_Witness ==
    /\ op = "reprojPts"
    /\ pc = "done"
    /\ EveryPointFits
    /\ Len(parts) = 3
    /\ Len(requests) = 3
    /\ Len(segs[3]) = 1
    /\ ret.kind = "return"

(***************************************************************************)
(* Properties of the error handling of reprojPt, reprojPts, search, ping.  *)
(***************************************************************************)
\* the request of a finished call that urlopen failed, 0 if none did
FailedRequest ==
    IF pc = "done" /\ replies # <<>> /\ replies[Len(replies)].exc # "none" THEN Len(replies) ELSE 0

\* C5: when the request of reprojPt, or of a chunk of reprojPts, fails with a
\* network error (URLError) or an HTTP status error (HTTPError), the failure
\* is logged with the URL of the request and the caller receives that same
\* error.
C5_RequestErrorLoggedAndKept ==
    (op \in {"reprojPt", "reprojPts"} /\ FailedRequest # 0
        /\ replies[FailedRequest].exc \in {"URLError", "HTTPError"}) =>
        /\ ret = Raised(replies[FailedRequest].exc)
        /\ \E n \in 1..Len(logged) : logged[n].url = requests[FailedRequest]

C7_SearchNeverRaises ==
    (op = "search" /\ pc = "done" /\ replies[1].exc = "none") => ret.kind = "return"

FirstNonEmpty(item, fields) ==
    LET held == {n \in 1..Len(fields) : fields[n] \in DOMAIN item.v /\ Truthy(item.v[fields[n]])}
    IN  IF held = {} THEN JStr(<<>>)
        ELSE item.v[fields[CHOOSE n \in held : \A m \in held : n <= m]]

CodeFields == <<"code", "epsg", "identifier">>
NameFields == <<"name", "title">>

\* the result collection of a document: the first non-empty of its fields
Collection(doc) ==
    LET c == FirstNonEmpty(doc, <<"results", "crs", "coordinateSystems">>)
    IN  IF c.t = "str" THEN JArr(<<>>) ELSE c

\* the document is an object whose result collection is a list of objects
WellShaped(doc) ==
    /\ doc.t = "obj"
    /\ Collection(doc).t = "arr"
    /\ \A n \in 1..Len(Collection(doc).v) : Collection(doc).v[n].t = "obj"

\* the entries of `entries` that satisfy Keep, in order
Kept(entries, Keep(_)) ==
    LET idx == SelectSeq([n \in 1..Len(entries) |-> n], LAMBDA n : Keep(entries[n]))
    IN  [m \in 1..Len(idx) |-> entries[idx[m]]]

\* the entry has a non-empty code and a non-empty name
HasCodeAndName(item) ==
    Truthy(FirstNonEmpty(item, CodeFields)) /\ Truthy(FirstNonEmpty(item, NameFields))

\* the entry has a code that is not blank, and a non-empty name
HasPrintableCodeAndName(item) ==
    /\ \E n \in 1..Len(Str(FirstNonEmpty(item, CodeFields))) :
            Str(FirstNonEmpty(item, CodeFields))[n] \notin Whitespace
    /\ Truthy(FirstNonEmpty(item, NameFields))

\* C9 as stated: the records returned are, in collection order, one for each
\* entry with a non-empty code and a non-empty name, and each record has a
\* non-empty code and a non-empty name.
C9_OneRecordPerNamedEntry ==
    (op = "search" /\ pc = "done" /\ replies[1].exc = "none" /\ WellShaped(replies[1].doc)) =>
        LET want == Kept(Collection(replies[1].doc).v, HasCodeAndName)
        IN  /\ ret.kind = "return"
            /\ Len(ret.val) = Len(want)
            /\ \A m \in 1..Len(ret.val) :
                /\ ret.val[m].name = FirstNonEmpty(want[m], NameFields)
                /\ ret.val[m].code # <<>>
                /\ Truthy(ret.val[m].name)

\* C9 amended: the records returned are, in collection order, one for each
\* entry whose code (the first non-empty of code, epsg, identifier, as text
\* without surrounding whitespace) is non-empty and whose name (the first
\* non-empty of name, title) is non-empty; the record holds that code and that
\* name.
C9_OneRecordPerPrintableEntry ==
    (op = "search" /\ pc = "done" /\ replies[1].exc = "none" /\ WellShaped(replies[1].doc)) =>
        LET want == Kept(Collection(replies[1].doc).v, HasPrintableCodeAndName)
        IN  /\ ret.kind = "return"
            /\ Len(ret.val) = Len(want)
            /\ \A m \in 1..Len(ret.val) :
                /\ ret.val[m].name = FirstNonEmpty(want[m], NameFields)
                /\ ret.val[m].code = Strip(Str(FirstNonEmpty(want[m], CodeFields)))
                /\ ret.val[m].code # <<>>
                /\ Truthy(ret.val[m].name)

C9_Witness ==
    /\ op = "search"
    /\ pc = "done"
    /\ replies[1].exc = "none"
    /\ WellShaped(replies[1].doc)
    /\ \E n \in 1..Len(Collection(replies[1].doc).v) : Collection(replies[1].doc).v[n] = EntryBlankCode
    /\ ret.kind = "return"
    /\ Len(ret.val) = 2

(***************************************************************************)
(* Properties of the GPX import operator.                                  *)
(***************************************************************************)
\* C12: when execute returns CANCELLED, the CRS of the scene and its
\* projected origin are what they were before the call.
C12_CancelledKeepsGeoref ==
    (op = "execute" /\ pc = "done" /\ ret.kind = "return" /\ ret.val = "CANCELLED") =>
        /\ geoscn.crs = georef0.crs
        /\ geoscn.origin = georef0.origin

====
